---- MODULE Spec2Model ----
(***************************************************************************)
(* Concurrent dependency health-prober of task_191323 (v1.go and v2.go):   *)
(* Initialize, the fan-out GetAllDockers with its three probe goroutines,  *)
(* the mutex-guarded slice (v1) and the buffered channel with its closer   *)
(* goroutine (v2).                                                         *)
(***************************************************************************)
EXTENDS Integers, Sequences, FiniteSets, TLC

VARIABLES ver,            \* which build runs: "v1" or "v2" (go build tag)
          envUrl,         \* os.Getenv("DOCKER_API_JWT"): "", "bad" or "ok"
          envTimeDelay,   \* os.Getenv("TIME_DELAY"), a sequence of characters
          proc,           \* process: "start", "serving", "exited"
          clientTimeout,  \* server.Client.Timeout in seconds (<= 0: no deadline)
          timeDelay,      \* timeDelay of the running invocation, in seconds
          call,           \* position of GetAllDockers: idle/loop/spawn/wait/range/sleep/returned
          i,              \* loop counter of the launch loop
          wg,             \* sync.WaitGroup counter
          pc,             \* position of each probe goroutine
          net,            \* what client.Get / ReadAll gave each probe
          docker,         \* the local variable docker of each probe goroutine
          mutex,          \* holder of the v1 mutex, or NoOne
          dockers,        \* the result slice
          dockerChan,     \* buffer of the v2 channel
          chanClosed,     \* the v2 channel was closed
          closer,         \* position of the v2 goroutine that waits and closes
          lis,            \* the listener of srv: "none", "open", "closed"
          srvpc,          \* position of the code that calls srv.ListenAndServe
          sigpc,          \* position of the code that waits for the signal and shuts down
          sigq,           \* buffer of the signal channel (capacity 1)
          grace,          \* the 5 s context of Shutdown: "off", "running", "expired"
          logs,           \* the shutdown lines logged so far
          exitCode,       \* exit status of the process, NoExit while it runs
          gets,           \* number of client.Get calls each probe goroutine has made
          w,              \* the http.ResponseWriter of the request being answered
          timeLocal       \* the package-level variable time.Local

vars == <<ver, envUrl, envTimeDelay, proc, clientTimeout, timeDelay, call, i, wg,
          pc, net, docker, mutex, dockers, dockerChan, chanClosed, closer,
          lis, srvpc, sigpc, sigq, grace, logs, exitCode, gets, w, timeLocal>>

\* the state of Server.Run
life == <<lis, srvpc, sigpc, sigq, grace, logs>>

\* the configuration and the client built from it
conf == <<ver, envUrl, envTimeDelay, clientTimeout, timeDelay, timeLocal>>

\* the state of one GetAllDockers invocation
fan == <<call, i, wg, pc, net, docker, mutex, dockers, dockerChan, chanClosed, closer,
         gets, w>>

\* ---------------------------------------------------------------- constants
NumProbes == 3
ChanCap == 3
defaultTimeDelay == 15
V2ClientTimeout == 30
StatusOK == 200
StatusInternalServerError == 500
SigChanCap == 1
NoExit == -1
ExitOK == 0
ExitFatal == 1
ExitPanic == 2
LOG_SHUTTING == "Shutting down server..."
LOG_FORCED == "Server forced to shutdown"
LOG_GRACEFUL == "Server gracefully stopped"
LOG_INVALID_DELAY == "Invalid TIME_DELAY value"
ZONE_LOCAL == "Local"
ZONE_SAO_PAULO == "America/Sao_Paulo"
DOCKER_JWT_STOPPED == "Docker rest_api_jwt_pdv_app com problema"
DOCKER_JWT_RUNNING == "Docker rest_api_jwt_pdv_app rodando normalmente"

\* ------------------------------------------------------------------- bounds
MaxDelay == 40
Delays == {0, MaxDelay}
StatusCodes == {StatusOK, 500, 502}
TimeDelayEnvs == { <<>>, <<"x">>, <<"0">>, <<"-", "1">>, <<"2">> }
UrlEnvs == {"", "bad", "ok"}

Probes == 0 .. (NumProbes - 1)
NoOne == -1

\* ------------------------------------------------------------ strconv.Atoi
Digits == {"0", "1", "2", "3", "4", "5", "6", "7", "8", "9"}

DigitVal(c) ==
    CASE c = "0" -> 0 [] c = "1" -> 1 [] c = "2" -> 2 [] c = "3" -> 3 [] c = "4" -> 4
      [] c = "5" -> 5 [] c = "6" -> 6 [] c = "7" -> 7 [] c = "8" -> 8 [] c = "9" -> 9

RECURSIVE DigitsVal(_)
DigitsVal(s) ==
    IF s = <<>> THEN 0 ELSE 10 * DigitsVal(SubSeq(s, 1, Len(s) - 1)) + DigitVal(s[Len(s)])

\* strconv.Atoi: optional sign, then one or more decimal digits
Atoi(s) ==
    LET signed == s # <<>> /\ s[1] \in {"+", "-"}
        body   == IF signed THEN Tail(s) ELSE s
        ok     == body # <<>> /\ \A k \in DOMAIN body : body[k] \in Digits
    IN  IF ~ok THEN [err |-> TRUE, val |-> 0]
        ELSE [err |-> FALSE,
              val |-> IF signed /\ s[1] = "-" THEN 0 - DigitsVal(body) ELSE DigitsVal(body)]

\* v1 Initialize: timeDelay, falling back to 15 when Atoi fails
InitializeTimeDelay(str) ==
    IF Atoi(str).err THEN defaultTimeDelay ELSE Atoi(str).val

\* v1 Initialize logs "Invalid TIME_DELAY value" whenever Atoi fails
InitializeWarns(str) == Atoi(str).err

\* v2 getEnvInt logs "Invalid value for environment variable" for a set value
\* that Atoi rejects
getEnvIntWarns(str) == str # <<>> /\ Atoi(str).err

\* mutant of getEnvInt: a value that does not parse is used as Atoi left it
getEnvIntNoFallback(str, defaultValue) ==
    IF str = <<>> THEN defaultValue ELSE Atoi(str).val

\* v2 getEnvInt(key, defaultValue)
getEnvInt(str, defaultValue) ==
    IF str = <<>> THEN defaultValue
    ELSE IF Atoi(str).err THEN defaultValue ELSE Atoi(str).val

\* ------------------------------------------------------------- client.Get
NoNet == [err |-> "none", delay |-> 0, status |-> 0, body |-> "unread"]

\* http.Client applies a deadline only when Timeout > 0
TimesOut(T, d) == T > 0 /\ d > T

\* the results client.Get(url) can have under client timeout T: a malformed URL
\* fails at once; a reachable target is refused, or answers with a status after
\* a delay, or the deadline passes first
GetResults(url, T) ==
    IF url # "ok"
    THEN {[err |-> "url", delay |-> 0, status |-> 0, body |-> "unread"]}
    ELSE {[err |-> "refused", delay |-> 0, status |-> 0, body |-> "unread"]}
         \cup {[err |-> "timeout", delay |-> d, status |-> 0, body |-> "unread"] :
                 d \in {x \in Delays : TimesOut(T, x)}}
         \cup {[err |-> "", delay |-> d, status |-> s, body |-> "unread"] :
                 d \in {x \in Delays : ~TimesOut(T, x)}, s \in StatusCodes}

\* time.Since(start) around client.Get
Elapsed(r, T) == IF r.err = "timeout" THEN T ELSE r.delay

\* ---------------------------------------------------------- the Docker record
\* the zero value of Docker; CheckedAt (time.Now()) is left out: no branch reads it
ZeroDocker == [Name |-> "", Running |-> FALSE, StatusCode |-> 0, ResponseTime |-> 0]

\* v1: the if/else chain of the goroutine body
DockerV1(r, T) ==
    LET d == [ZeroDocker EXCEPT !.ResponseTime = Elapsed(r, T)]
    IN  IF r.err # ""
        THEN [d EXCEPT !.Name = DOCKER_JWT_STOPPED, !.Running = FALSE, !.StatusCode = -1]
        ELSE IF r.body = "err"
        THEN [d EXCEPT !.Name = DOCKER_JWT_STOPPED, !.Running = FALSE, !.StatusCode = r.status]
        ELSE IF r.status = StatusOK
        THEN [d EXCEPT !.Name = DOCKER_JWT_RUNNING, !.Running = TRUE, !.StatusCode = r.status]
        ELSE [d EXCEPT !.Name = DOCKER_JWT_STOPPED, !.Running = FALSE, !.StatusCode = r.status]

\* v2: the if/else chain of the goroutine body
DockerV2(r, T) ==
    LET d == [ZeroDocker EXCEPT !.ResponseTime = Elapsed(r, T)]
    IN  IF r.err # ""
        THEN [d EXCEPT !.Name = DOCKER_JWT_STOPPED, !.Running = FALSE]
        ELSE IF r.body = "err"
        THEN [d EXCEPT !.Name = DOCKER_JWT_STOPPED, !.Running = FALSE]
        ELSE [d EXCEPT !.Name = DOCKER_JWT_RUNNING, !.Running = TRUE, !.StatusCode = r.status]

ToDocker(v, r, T) == IF v = "v1" THEN DockerV1(r, T) ELSE DockerV2(r, T)

\* ---------------------------------------------------------- the response
\* a ResponseWriter nothing was written to: no status line yet
NoResponse == [status |-> 0, encodeErr |-> FALSE, logged |-> FALSE]

\* w.WriteHeader(code): the first call sends the status line, a later call is
\* superfluous and changes nothing
WriteHeader(rw, code) == IF rw.status = 0 THEN [rw EXCEPT !.status = code] ELSE rw

\* JSON(w, statusCode, data): the header is written first, then the data is
\* encoded; when Encode fails v1 logs and calls http.Error(w, ..., 500), v2
\* prints the error text into the body
JSON(v, rw, statusCode, encodes) ==
    LET hdr == WriteHeader(rw, statusCode)
    IN  IF encodes THEN hdr
        ELSE IF v = "v1"
        THEN [WriteHeader(hdr, StatusInternalServerError) EXCEPT
                 !.encodeErr = TRUE, !.logged = TRUE]
        ELSE [hdr EXCEPT !.encodeErr = TRUE]

\* ------------------------------------------------------------------- Init
Init ==
    /\ ver \in {"v1", "v2"}
    /\ envUrl \in UrlEnvs
    /\ envTimeDelay \in TimeDelayEnvs
    /\ proc = "start"
    /\ clientTimeout = 0
    /\ timeDelay = 0
    /\ call = "idle"
    /\ i = 0
    /\ wg = 0
    /\ pc = [p \in Probes |-> "idle"]
    /\ net = [p \in Probes |-> NoNet]
    /\ docker = [p \in Probes |-> ZeroDocker]
    /\ mutex = NoOne
    /\ dockers = <<>>
    /\ dockerChan = <<>>
    /\ chanClosed = FALSE
    /\ closer = "idle"
    /\ lis = "none"
    /\ srvpc = "off"
    /\ sigpc = "off"
    /\ sigq = <<>>
    /\ grace = "off"
    /\ logs = {}
    /\ exitCode = NoExit
    /\ gets = [p \in Probes |-> 0]
    /\ w = NoResponse
    /\ timeLocal = IF ver = "v1" THEN ZONE_SAO_PAULO ELSE ZONE_LOCAL

\* ---------------------------------------------------------- Initialize
\* Server.Initialize: v1 reads TIME_DELAY and DOCKER_API_JWT and builds the
\* client from them; v2 builds a client with a fixed 30 s timeout.
Initialize ==
    /\ proc = "start"
    /\ IF ver = "v1"
       THEN /\ timeDelay' = InitializeTimeDelay(envTimeDelay)
            /\ logs' = IF InitializeWarns(envTimeDelay)
                       THEN logs \cup {LOG_INVALID_DELAY} ELSE logs
            /\ IF envUrl = ""
               THEN proc' = "exited" /\ UNCHANGED clientTimeout
               ELSE proc' = "serving" /\ clientTimeout' = InitializeTimeDelay(envTimeDelay)
       ELSE /\ proc' = "serving"
            /\ clientTimeout' = V2ClientTimeout
            /\ UNCHANGED <<timeDelay, logs>>
    /\ exitCode' = IF proc' = "exited" THEN ExitFatal ELSE exitCode
    /\ UNCHANGED <<lis, srvpc, sigpc, sigq, grace, gets, w, timeLocal, ver, envUrl,
                   envTimeDelay, call, i, wg, pc, net, docker, mutex,
                   dockers, dockerChan, chanClosed, closer>>

\* ------------------------------------------------------------ Server.Run
\* Run starts two threads of control: the caller of srv.ListenAndServe (main
\* in v1, a goroutine in v2) and the code that registers for the signal and
\* later calls srv.Shutdown (a goroutine in v1, main in v2)
RunStart ==
    /\ proc = "serving"
    /\ srvpc = "off"
    /\ sigpc = "off"
    /\ srvpc' = "listen"
    /\ sigpc' = "notify"
    /\ UNCHANGED <<conf, fan, proc, exitCode, lis, sigq, grace, logs>>

\* srv.ListenAndServe(): after Shutdown it returns ErrServerClosed at once;
\* otherwise it binds and serves, or the bind fails and the error is fatal
Listen ==
    /\ proc = "serving"
    /\ srvpc = "listen"
    /\ IF lis = "closed"
       THEN srvpc' = "ret" /\ UNCHANGED <<lis, proc, exitCode>>
       ELSE \E bound \in BOOLEAN :
              IF bound
              THEN lis' = "open" /\ srvpc' = "serve" /\ UNCHANGED <<proc, exitCode>>
              ELSE proc' = "exited" /\ exitCode' = ExitFatal /\ UNCHANGED <<lis, srvpc>>
    /\ UNCHANGED <<conf, fan, sigpc, sigq, grace, logs>>

\* the listener takes new connections
Accepting == lis = "open"

\* ---------------------------------------------------- GetAllDockers, main
\* The server hands a request with a fresh ResponseWriter to the handler,
\* which calls GetAllDockers: fresh locals; v2 reads its configuration here,
\* sets time.Local, and exits the process when DOCKER_API_JWT is empty.
Invoke ==
    /\ proc = "serving"
    /\ Accepting
    /\ call = "idle"
    /\ w' = NoResponse
    /\ IF ver = "v2"
       THEN /\ timeDelay' = getEnvInt(envTimeDelay, defaultTimeDelay)
            /\ logs' = IF getEnvIntWarns(envTimeDelay)
                       THEN logs \cup {LOG_INVALID_DELAY} ELSE logs
            /\ timeLocal' = ZONE_SAO_PAULO
            /\ IF envUrl = ""
               THEN proc' = "exited" /\ UNCHANGED call
               ELSE call' = "loop" /\ UNCHANGED proc
       ELSE /\ call' = "loop"
            /\ UNCHANGED <<timeDelay, proc, logs, timeLocal>>
    /\ exitCode' = IF proc' = "exited" THEN ExitFatal ELSE exitCode
    /\ UNCHANGED <<lis, srvpc, sigpc, sigq, grace, gets, ver, envUrl, envTimeDelay,
                   clientTimeout, i, wg, pc, net, docker,
                   mutex, dockers, dockerChan, chanClosed, closer>>

\* mutant of WgAdd: the counter is not raised before the launch
WgAddMissing(n) == n

\* wg.Add(1)
WgAdd(n) == n + 1

\* mutant of LoopCond: the next probe is launched only after the earlier ones ended
LoopCondSequential == i < NumProbes /\ \A p \in Probes : pc[p] \in {"idle", "end"}

\* for i := 0; i < 3; i++
LoopCond == i < NumProbes

\* one iteration of the loop: wg.Add(1); go func() {...}()
Launch ==
    /\ proc = "serving"
    /\ call = "loop"
    /\ LoopCond
    /\ wg' = WgAdd(wg)
    /\ pc' = [pc EXCEPT ![i] = "get"]
    /\ i' = i + 1
    /\ UNCHANGED <<life, gets, w, timeLocal, ver, envUrl, envTimeDelay, proc, exitCode, clientTimeout, timeDelay, call, net,
                   docker, mutex, dockers, dockerChan, chanClosed, closer>>

\* the loop ends: v1 goes on to wg.Wait(), v2 to the closer goroutine
LoopExit ==
    /\ proc = "serving"
    /\ call = "loop"
    /\ i >= NumProbes
    /\ call' = IF ver = "v1" THEN "wait" ELSE "spawn"
    /\ UNCHANGED <<life, gets, w, timeLocal, ver, envUrl, envTimeDelay, proc, exitCode, clientTimeout, timeDelay, i, wg, pc,
                   net, docker, mutex, dockers, dockerChan, chanClosed, closer>>

\* v1: wg.Wait(); return dockers
WaitReturn ==
    /\ proc = "serving"
    /\ call = "wait"
    /\ wg = 0
    /\ call' = "returned"
    /\ UNCHANGED <<life, gets, w, timeLocal, ver, envUrl, envTimeDelay, proc, exitCode, clientTimeout, timeDelay, i, wg, pc,
                   net, docker, mutex, dockers, dockerChan, chanClosed, closer>>

\* v2: go func() { wg.Wait(); close(dockerChan) }()
SpawnCloser ==
    /\ proc = "serving"
    /\ call = "spawn"
    /\ closer' = "wait"
    /\ call' = "range"
    /\ UNCHANGED <<life, gets, w, timeLocal, ver, envUrl, envTimeDelay, proc, exitCode, clientTimeout, timeDelay, i, wg, pc,
                   net, docker, mutex, dockers, dockerChan, chanClosed>>

\* mutant of CloserWait: the closer goes on to close without the join
CloserNoWait ==
    /\ proc = "serving"
    /\ closer = "wait"
    /\ closer' = "close"
    /\ UNCHANGED <<life, gets, w, timeLocal, ver, envUrl, envTimeDelay, proc, exitCode, clientTimeout, timeDelay, call, i, wg,
                   pc, net, docker, mutex, dockers, dockerChan, chanClosed>>

\* v2 closer: wg.Wait() returns
CloserWait ==
    /\ proc = "serving"
    /\ closer = "wait"
    /\ wg = 0
    /\ closer' = "close"
    /\ UNCHANGED <<life, gets, w, timeLocal, ver, envUrl, envTimeDelay, proc, exitCode, clientTimeout, timeDelay, call, i, wg,
                   pc, net, docker, mutex, dockers, dockerChan, chanClosed>>

\* v2 closer: close(dockerChan); closing a closed channel panics
CloserClose ==
    /\ proc = "serving"
    /\ closer = "close"
    /\ closer' = "end"
    /\ chanClosed' = TRUE
    /\ proc' = IF chanClosed THEN "exited" ELSE proc
    /\ exitCode' = IF proc' = "exited" THEN ExitPanic ELSE exitCode
    /\ UNCHANGED <<life, gets, w, timeLocal, ver, envUrl, envTimeDelay, clientTimeout, timeDelay, call, i, wg,
                   pc, net, docker, mutex, dockers, dockerChan>>

\* mutant of AppendDocker: a failed record is not collected
AppendDockerSkipFailed(s, d) == IF d.Running THEN Append(s, d) ELSE s

\* dockers = append(dockers, d)
AppendDocker(s, d) == Append(s, d)

\* mutant of Recv: the loop takes the newest record of the buffer
RecvNewest ==
    /\ proc = "serving"
    /\ call = "range"
    /\ dockerChan # <<>>
    /\ dockers' = AppendDocker(dockers, dockerChan[Len(dockerChan)])
    /\ dockerChan' = SubSeq(dockerChan, 1, Len(dockerChan) - 1)
    /\ UNCHANGED <<life, gets, w, timeLocal, ver, envUrl, envTimeDelay, proc, exitCode, clientTimeout, timeDelay, call, i, wg,
                   pc, net, docker, mutex, chanClosed, closer>>

\* v2: one iteration of  for d := range dockerChan
Recv ==
    /\ proc = "serving"
    /\ call = "range"
    /\ dockerChan # <<>>
    /\ dockers' = AppendDocker(dockers, Head(dockerChan))
    /\ dockerChan' = Tail(dockerChan)
    /\ UNCHANGED <<life, gets, w, timeLocal, ver, envUrl, envTimeDelay, proc, exitCode, clientTimeout, timeDelay, call, i, wg,
                   pc, net, docker, mutex, chanClosed, closer>>

\* mutant of RangeExit: the loop ends as soon as the channel is found empty
RangeExitOnEmpty ==
    /\ proc = "serving"
    /\ call = "range"
    /\ dockerChan = <<>>
    /\ call' = "sleep"
    /\ UNCHANGED <<life, gets, w, timeLocal, ver, envUrl, envTimeDelay, proc, exitCode, clientTimeout, timeDelay, i, wg, pc,
                   net, docker, mutex, dockers, dockerChan, chanClosed, closer>>

\* v2: the range loop ends when the channel is closed and drained
RangeExit ==
    /\ proc = "serving"
    /\ call = "range"
    /\ dockerChan = <<>>
    /\ chanClosed
    /\ call' = "sleep"
    /\ UNCHANGED <<life, gets, w, timeLocal, ver, envUrl, envTimeDelay, proc, exitCode, clientTimeout, timeDelay, i, wg, pc,
                   net, docker, mutex, dockers, dockerChan, chanClosed, closer>>

\* v2: time.Sleep(timeDelay seconds); return dockers
SleepReturn ==
    /\ proc = "serving"
    /\ call = "sleep"
    /\ call' = "returned"
    /\ UNCHANGED <<life, gets, w, timeLocal, ver, envUrl, envTimeDelay, proc, exitCode, clientTimeout, timeDelay, i, wg, pc,
                   net, docker, mutex, dockers, dockerChan, chanClosed, closer>>

\* the handler calls JSON(w, http.StatusOK, resp), where Encode succeeds or
\* fails; the locals of the invocation are gone
Respond ==
    /\ proc = "serving"
    /\ call = "returned"
    /\ \E encodes \in BOOLEAN : w' = JSON(ver, w, StatusOK, encodes)
    /\ call' = "idle"
    /\ gets' = [p \in Probes |-> 0]
    /\ i' = 0
    /\ wg' = 0
    /\ pc' = [p \in Probes |-> "idle"]
    /\ net' = [p \in Probes |-> NoNet]
    /\ docker' = [p \in Probes |-> ZeroDocker]
    /\ mutex' = NoOne
    /\ dockers' = <<>>
    /\ dockerChan' = <<>>
    /\ chanClosed' = FALSE
    /\ closer' = "idle"
    /\ UNCHANGED <<life, timeLocal, ver, envUrl, envTimeDelay, proc, exitCode, clientTimeout, timeDelay>>

\* ------------------------------------------------- the probe goroutine
\* where the goroutine goes once its record is built
Deposit == IF ver = "v1" THEN "lock" ELSE "send"

\* mutant of ProbeGet: an error of one probe cancels the siblings still in client.Get
ProbeGetCancelSiblings(p) ==
    /\ proc = "serving"
    /\ pc[p] = "get"
    /\ \E r \in GetResults(envUrl, clientTimeout) :
         LET hit == IF r.err # "" THEN {q \in Probes : pc[q] = "get"} ELSE {p}
             res(q) == IF q = p THEN r
                       ELSE [err |-> "canceled", delay |-> 0, status |-> 0, body |-> "unread"]
         IN  /\ net' = [q \in Probes |-> IF q \in hit THEN res(q) ELSE net[q]]
             /\ docker' = [q \in Probes |->
                             IF q \notin hit THEN docker[q]
                             ELSE IF r.err # "" THEN ToDocker(ver, res(q), clientTimeout)
                             ELSE [ZeroDocker EXCEPT !.ResponseTime = Elapsed(r, clientTimeout)]]
             /\ pc' = [q \in Probes |->
                         IF q \notin hit THEN pc[q]
                         ELSE IF r.err # "" THEN Deposit ELSE "read"]
             /\ gets' = [q \in Probes |-> IF q \in hit THEN gets[q] + 1 ELSE gets[q]]
    /\ UNCHANGED <<life, w, timeLocal, ver, envUrl, envTimeDelay, proc, exitCode, clientTimeout, timeDelay, call, i, wg,
                   mutex, dockers, dockerChan, chanClosed, closer>>

\* mutant of ProbeGet: a request error ends the process (log.Fatalf for log.Printf)
ProbeGetFatal(p) ==
    /\ pc[p] = "get"
    /\ \E r \in GetResults(envUrl, clientTimeout) :
         /\ net' = [net EXCEPT ![p] = r]
         /\ IF r.err # ""
            THEN /\ docker' = [docker EXCEPT ![p] = ToDocker(ver, r, clientTimeout)]
                 /\ pc' = [pc EXCEPT ![p] = Deposit]
                 /\ proc' = "exited"
            ELSE /\ docker' = [docker EXCEPT ![p] =
                               [ZeroDocker EXCEPT !.ResponseTime = Elapsed(r, clientTimeout)]]
                 /\ pc' = [pc EXCEPT ![p] = "read"]
                 /\ proc' = proc
    /\ proc = "serving"
    /\ gets' = [gets EXCEPT ![p] = @ + 1]
    /\ exitCode' = IF proc' = "exited" THEN ExitFatal ELSE exitCode
    /\ UNCHANGED <<life, w, timeLocal, ver, envUrl, envTimeDelay, clientTimeout, timeDelay, call, i, wg,
                   mutex, dockers, dockerChan, chanClosed, closer>>

\* mutant of ProbeGet: a probe whose first GET failed issues the GET again
ProbeGetRetry(p) ==
    /\ proc = "serving"
    /\ pc[p] = "get"
    /\ gets' = [gets EXCEPT ![p] = @ + 1]
    /\ \E r \in GetResults(envUrl, clientTimeout) :
         /\ net' = [net EXCEPT ![p] = r]
         /\ IF r.err # "" /\ gets[p] = 0
            THEN UNCHANGED <<docker, pc>>
            ELSE IF r.err # ""
            THEN /\ docker' = [docker EXCEPT ![p] = ToDocker(ver, r, clientTimeout)]
                 /\ pc' = [pc EXCEPT ![p] = Deposit]
            ELSE /\ docker' = [docker EXCEPT ![p] =
                               [ZeroDocker EXCEPT !.ResponseTime = Elapsed(r, clientTimeout)]]
                 /\ pc' = [pc EXCEPT ![p] = "read"]
    /\ UNCHANGED <<life, w, timeLocal, ver, envUrl, envTimeDelay, proc, exitCode, clientTimeout, timeDelay, call, i, wg,
                   mutex, dockers, dockerChan, chanClosed, closer>>

\* req, err := client.Get(url), the timing, and the err # nil branch
ProbeGet(p) ==
    /\ proc = "serving"
    /\ pc[p] = "get"
    /\ gets' = [gets EXCEPT ![p] = @ + 1]
    /\ \E r \in GetResults(envUrl, clientTimeout) :
         /\ net' = [net EXCEPT ![p] = r]
         /\ IF r.err # ""
            THEN /\ docker' = [docker EXCEPT ![p] = ToDocker(ver, r, clientTimeout)]
                 /\ pc' = [pc EXCEPT ![p] = Deposit]
            ELSE /\ docker' = [docker EXCEPT ![p] =
                               [ZeroDocker EXCEPT !.ResponseTime = Elapsed(r, clientTimeout)]]
                 /\ pc' = [pc EXCEPT ![p] = "read"]
    /\ UNCHANGED <<life, w, timeLocal, ver, envUrl, envTimeDelay, proc, exitCode, clientTimeout, timeDelay, call, i, wg,
                   mutex, dockers, dockerChan, chanClosed, closer>>

\* body, err := ioutil.ReadAll(req.Body) and the branches under it
ProbeRead(p) ==
    /\ proc = "serving"
    /\ pc[p] = "read"
    /\ \E b \in {"ok", "err"} :
         /\ net' = [net EXCEPT ![p].body = b]
         /\ docker' = [docker EXCEPT ![p] =
                         ToDocker(ver, [net[p] EXCEPT !.body = b], clientTimeout)]
    /\ pc' = [pc EXCEPT ![p] = Deposit]
    /\ UNCHANGED <<life, gets, w, timeLocal, ver, envUrl, envTimeDelay, proc, exitCode, clientTimeout, timeDelay, call, i, wg,
                   mutex, dockers, dockerChan, chanClosed, closer>>

\* mutant of MutexFree: Lock never waits
MutexFreeAlways == TRUE

\* mutex.Lock() proceeds only when nobody holds the mutex
MutexFree == mutex = NoOne

\* v1: mutex.Lock()
ProbeLock(p) ==
    /\ proc = "serving"
    /\ pc[p] = "lock"
    /\ MutexFree
    /\ mutex' = p
    /\ pc' = [pc EXCEPT ![p] = "append"]
    /\ UNCHANGED <<life, gets, w, timeLocal, ver, envUrl, envTimeDelay, proc, exitCode, clientTimeout, timeDelay, call, i, wg,
                   net, docker, dockers, dockerChan, chanClosed, closer>>

\* v1: dockers = append(dockers, docker)
ProbeAppend(p) ==
    /\ proc = "serving"
    /\ pc[p] = "append"
    /\ dockers' = AppendDocker(dockers, docker[p])
    /\ pc' = [pc EXCEPT ![p] = "unlock"]
    /\ UNCHANGED <<life, gets, w, timeLocal, ver, envUrl, envTimeDelay, proc, exitCode, clientTimeout, timeDelay, call, i, wg,
                   net, docker, mutex, dockerChan, chanClosed, closer>>

\* v1: mutex.Unlock()
ProbeUnlock(p) ==
    /\ proc = "serving"
    /\ pc[p] = "unlock"
    /\ mutex' = NoOne
    /\ pc' = [pc EXCEPT ![p] = "defer"]
    /\ UNCHANGED <<life, gets, w, timeLocal, ver, envUrl, envTimeDelay, proc, exitCode, clientTimeout, timeDelay, call, i, wg,
                   net, docker, dockers, dockerChan, chanClosed, closer>>

\* v2: dockerChan <- docker; blocks while the buffer is full, panics when closed
ProbeSend(p) ==
    /\ proc = "serving"
    /\ pc[p] = "send"
    /\ chanClosed \/ Len(dockerChan) < ChanCap
    /\ IF chanClosed
       THEN proc' = "exited" /\ UNCHANGED <<dockerChan, pc>>
       ELSE /\ dockerChan' = Append(dockerChan, docker[p])
            /\ pc' = [pc EXCEPT ![p] = "defer"]
            /\ UNCHANGED proc
    /\ exitCode' = IF proc' = "exited" THEN ExitPanic ELSE exitCode
    /\ UNCHANGED <<life, gets, w, timeLocal, ver, envUrl, envTimeDelay, clientTimeout, timeDelay, call, i, wg,
                   net, docker, mutex, dockers, chanClosed, closer>>

\* the deferred calls: req.Body.Close() and wg.Done(); a negative counter panics
ProbeDone(p) ==
    /\ proc = "serving"
    /\ pc[p] = "defer"
    /\ wg' = wg - 1
    /\ pc' = [pc EXCEPT ![p] = "end"]
    /\ proc' = IF wg - 1 < 0 THEN "exited" ELSE proc
    /\ exitCode' = IF proc' = "exited" THEN ExitPanic ELSE exitCode
    /\ UNCHANGED <<life, gets, w, timeLocal, ver, envUrl, envTimeDelay, clientTimeout, timeDelay, call, i,
                   net, docker, mutex, dockers, dockerChan, chanClosed, closer>>

\* ------------------------------------------------------------------- Next
Next ==
    \/ Initialize
    \/ RunStart
    \/ Listen
    \/ Invoke
    \/ Launch
    \/ LoopExit
    \/ WaitReturn
    \/ SpawnCloser
    \/ CloserWait
    \/ CloserClose
    \/ Recv
    \/ RangeExit
    \/ SleepReturn
    \/ Respond
    \/ \E p \in Probes : ProbeGet(p)
    \/ \E p \in Probes : ProbeRead(p)
    \/ \E p \in Probes : ProbeLock(p)
    \/ \E p \in Probes : ProbeAppend(p)
    \/ \E p \in Probes : ProbeUnlock(p)
    \/ \E p \in Probes : ProbeSend(p)
    \/ \E p \in Probes : ProbeDone(p)

Spec == Init /\ [][Next]_vars

\* ------------------------------------------------ the v2 build on its own
\* the channel-based fan-out of v2 against a reachable target
UrlEnvsChan == {"ok"}
TimeDelayEnvsChan == { <<>> }

InitChan ==
    /\ Init
    /\ ver = "v2"
    /\ envUrl \in UrlEnvsChan
    /\ envTimeDelay \in TimeDelayEnvsChan

NextChan ==
    \/ Initialize
    \/ RunStart
    \/ Listen
    \/ Invoke
    \/ Launch
    \/ LoopExit
    \/ SpawnCloser
    \/ CloserWait
    \/ CloserClose
    \/ Recv
    \/ RangeExit
    \/ SleepReturn
    \/ Respond
    \/ \E p \in Probes : ProbeGet(p)
    \/ \E p \in Probes : ProbeRead(p)
    \/ \E p \in Probes : ProbeSend(p)
    \/ \E p \in Probes : ProbeDone(p)

SpecChan == InitChan /\ [][NextChan]_vars

\* Fairness: the Go scheduler runs every runnable goroutine, so each step of
\* GetAllDockers, of its closer and of a probe goroutine that stays enabled is
\* taken; client.Get and ReadAll return because the v2 client has a deadline.
\* Nothing is assumed of the arrival of requests.
FairSpecChan ==
    /\ SpecChan
    /\ WF_vars(Launch)
    /\ WF_vars(LoopExit)
    /\ WF_vars(SpawnCloser)
    /\ WF_vars(CloserWait)
    /\ WF_vars(CloserClose)
    /\ WF_vars(Recv)
    /\ WF_vars(RangeExit)
    /\ \A p \in Probes : WF_vars(ProbeGet(p))
    /\ \A p \in Probes : WF_vars(ProbeRead(p))
    /\ \A p \in Probes : WF_vars(ProbeSend(p))
    /\ \A p \in Probes : WF_vars(ProbeDone(p))

\* ------------------------------------------- signals and srv.Shutdown
Signals == {"INT", "TERM"}

\* signal numbers of os.Interrupt and syscall.SIGTERM
SigNum(sg) == IF sg = "INT" THEN 2 ELSE 15

\* the signals passed to signal.Notify
Handled == IF ver = "v1" THEN {"INT", "TERM"} ELSE {"INT"}

\* signal.Notify has run
Registered == sigpc \notin {"off", "notify"}

\* signal.Notify(ch, ...)
Notify ==
    /\ proc = "serving"
    /\ sigpc = "notify"
    /\ sigpc' = "wait"
    /\ UNCHANGED <<conf, fan, proc, exitCode, lis, srvpc, sigq, grace, logs>>

\* the operating system delivers a signal: a registered signal goes to the
\* channel (dropped when the buffer is full), any other one kills the process
Signal(sg) ==
    /\ proc = "serving"
    /\ IF Registered /\ sg \in Handled
       THEN /\ sigq' = IF Len(sigq) < SigChanCap THEN Append(sigq, sg) ELSE sigq
            /\ UNCHANGED <<proc, exitCode>>
       ELSE /\ proc' = "exited"
            /\ exitCode' = 128 + SigNum(sg)
            /\ UNCHANGED sigq
    /\ UNCHANGED <<conf, fan, lis, srvpc, sigpc, grace, logs>>

\* <-sigint (v1), <-stop (v2)
RecvSignal ==
    /\ proc = "serving"
    /\ sigpc = "wait"
    /\ sigq # <<>>
    /\ sigq' = Tail(sigq)
    /\ sigpc' = "got"
    /\ UNCHANGED <<conf, fan, proc, exitCode, lis, srvpc, grace, logs>>

\* mutant of BeginShutdown: the signal is logged and the deadline armed, but
\* the listener is left open (srv.Shutdown is not what gets called)
BeginShutdownNoClose ==
    /\ proc = "serving"
    /\ sigpc = "got"
    /\ logs' = logs \cup {LOG_SHUTTING}
    /\ grace' = "running"
    /\ sigpc' = "drain"
    /\ UNCHANGED <<conf, fan, proc, exitCode, lis, srvpc, sigq>>

\* log "Shutting down server...", context.WithTimeout(5 s) and the entry of
\* srv.Shutdown(ctx), which closes the listener at once
BeginShutdown ==
    /\ proc = "serving"
    /\ sigpc = "got"
    /\ logs' = logs \cup {LOG_SHUTTING}
    /\ grace' = "running"
    /\ lis' = "closed"
    /\ sigpc' = "drain"
    /\ UNCHANGED <<conf, fan, proc, exitCode, srvpc, sigq>>

\* ListenAndServe returns ErrServerClosed as soon as Shutdown was called
ServeReturn ==
    /\ proc = "serving"
    /\ srvpc = "serve"
    /\ lis = "closed"
    /\ srvpc' = "ret"
    /\ UNCHANGED <<conf, fan, proc, exitCode, lis, sigpc, sigq, grace, logs>>

\* what the caller does with the error: v1 log.Fatal(err); v2 ignores
\* ErrServerClosed and the goroutine ends
ServeExit ==
    /\ proc = "serving"
    /\ srvpc = "ret"
    /\ IF ver = "v1"
       THEN proc' = "exited" /\ exitCode' = ExitFatal /\ UNCHANGED srvpc
       ELSE srvpc' = "end" /\ UNCHANGED <<proc, exitCode>>
    /\ UNCHANGED <<conf, fan, lis, sigpc, sigq, grace, logs>>

\* mutant of GraceExpire: Shutdown gets a context without deadline
GraceNeverExpires == FALSE /\ UNCHANGED vars

\* the 5 s of the shutdown context pass
GraceExpire ==
    /\ proc = "serving"
    /\ sigpc = "drain"
    /\ grace = "running"
    /\ grace' = "expired"
    /\ UNCHANGED <<conf, fan, proc, exitCode, lis, srvpc, sigpc, sigq, logs>>

\* srv.Shutdown returns nil once no request is in flight
ShutdownDrained ==
    /\ proc = "serving"
    /\ sigpc = "drain"
    /\ call = "idle"
    /\ sigpc' = "ok"
    /\ UNCHANGED <<conf, fan, proc, exitCode, lis, srvpc, sigq, grace, logs>>

\* srv.Shutdown returns ctx.Err() once the context is done
ShutdownTimedOut ==
    /\ proc = "serving"
    /\ sigpc = "drain"
    /\ grace = "expired"
    /\ sigpc' = "err"
    /\ UNCHANGED <<conf, fan, proc, exitCode, lis, srvpc, sigq, grace, logs>>

\* log.Fatalf("Server forced to shutdown: %v", err)
ShutdownFailed ==
    /\ proc = "serving"
    /\ sigpc = "err"
    /\ logs' = logs \cup {LOG_FORCED}
    /\ proc' = "exited"
    /\ exitCode' = ExitFatal
    /\ UNCHANGED <<conf, fan, lis, srvpc, sigpc, sigq, grace>>

\* log.Println("Server gracefully stopped")
ShutdownLogged ==
    /\ proc = "serving"
    /\ sigpc = "ok"
    /\ logs' = logs \cup {LOG_GRACEFUL}
    /\ sigpc' = "logged"
    /\ UNCHANGED <<conf, fan, proc, exitCode, lis, srvpc, sigq, grace>>

\* after the last log line: the v1 goroutine ends; in v2 Run returns and main
\* returns, which ends the process with status 0
RunReturn ==
    /\ proc = "serving"
    /\ sigpc = "logged"
    /\ IF ver = "v1"
       THEN sigpc' = "end" /\ UNCHANGED <<proc, exitCode>>
       ELSE proc' = "exited" /\ exitCode' = ExitOK /\ UNCHANGED sigpc
    /\ UNCHANGED <<conf, fan, lis, srvpc, sigq, grace, logs>>

\* the steps of Run after its start
Lifecycle ==
    \/ Notify
    \/ \E sg \in Signals : Signal(sg)
    \/ RecvSignal
    \/ BeginShutdown
    \/ ServeReturn
    \/ ServeExit
    \/ GraceExpire
    \/ ShutdownDrained
    \/ ShutdownTimedOut
    \/ ShutdownFailed
    \/ ShutdownLogged
    \/ RunReturn

\* the server under signals; its target URL is empty or malformed, so every
\* GET of a handler fails before a response and ProbeRead has nothing to read
UrlEnvsServer == {"", "bad"}
TimeDelayEnvsServer == { <<>>, <<"2">> }

InitServer ==
    /\ Init
    /\ envUrl \in UrlEnvsServer
    /\ envTimeDelay \in TimeDelayEnvsServer

NextServer ==
    \/ Initialize
    \/ RunStart
    \/ Listen
    \/ Lifecycle
    \/ Invoke
    \/ Launch
    \/ LoopExit
    \/ WaitReturn
    \/ SpawnCloser
    \/ CloserWait
    \/ CloserClose
    \/ Recv
    \/ RangeExit
    \/ SleepReturn
    \/ Respond
    \/ \E p \in Probes : ProbeGet(p)
    \/ \E p \in Probes : ProbeLock(p)
    \/ \E p \in Probes : ProbeAppend(p)
    \/ \E p \in Probes : ProbeUnlock(p)
    \/ \E p \in Probes : ProbeSend(p)
    \/ \E p \in Probes : ProbeDone(p)

SpecServer == InitServer /\ [][NextServer]_vars

\* Fairness: the Go scheduler runs every runnable goroutine and the runtime
\* fires the context timer, so each step of Run that stays enabled is taken.
\* Nothing is assumed of the handlers: a request may stay in flight for ever.
FairSpecServer ==
    /\ SpecServer
    /\ WF_vars(Listen)
    /\ WF_vars(RecvSignal)
    /\ WF_vars(BeginShutdown)
    /\ WF_vars(ServeReturn)
    /\ WF_vars(ServeExit)
    /\ WF_vars(GraceExpire)
    /\ WF_vars(ShutdownDrained)
    /\ WF_vars(ShutdownTimedOut)
    /\ WF_vars(ShutdownFailed)
    /\ WF_vars(ShutdownLogged)
    /\ WF_vars(RunReturn)

\* the state of the lifecycle of section 4.5, read off the process and listener
Stage ==
    IF proc = "exited" THEN "Stopped"
    ELSE IF lis = "closed" THEN "ShuttingDown"
    ELSE IF lis = "open" THEN "Serving"
    ELSE "Initializing"

\* ----------------------------------------------------------- type invariant
TypeOK ==
    /\ ver \in {"v1", "v2"}
    /\ proc \in {"start", "serving", "exited"}
    /\ call \in {"idle", "loop", "spawn", "wait", "range", "sleep", "returned"}
    /\ i \in 0 .. NumProbes
    /\ wg \in 0 .. NumProbes
    /\ \A p \in Probes : pc[p] \in {"idle", "get", "read", "lock", "append", "unlock",
                                     "send", "defer", "end"}
    /\ mutex \in Probes \cup {NoOne}
    /\ Len(dockers) <= NumProbes
    /\ Len(dockerChan) <= ChanCap
    /\ closer \in {"idle", "wait", "close", "end"}
    /\ lis \in {"none", "open", "closed"}
    /\ srvpc \in {"off", "listen", "serve", "ret", "end"}
    /\ sigpc \in {"off", "notify", "wait", "got", "drain", "ok", "err", "logged", "end"}
    /\ Len(sigq) <= SigChanCap
    /\ grace \in {"off", "running", "expired"}
    /\ logs \subseteq {LOG_SHUTTING, LOG_FORCED, LOG_GRACEFUL, LOG_INVALID_DELAY}
    /\ exitCode = NoExit <=> proc # "exited"
    /\ \A p \in Probes : gets[p] \in 0 .. 1
    /\ w.status \in {0, StatusOK, StatusInternalServerError}
    /\ timeLocal \in {ZONE_LOCAL, ZONE_SAO_PAULO}

\* ------------------------------------------------------------ vocabulary
\* the goroutine of probe p has built its record
Built(p) == pc[p] \in {"lock", "append", "unlock", "send", "defer", "end"}

\* probe p got a response (status line and headers)
Responded(p) == Built(p) /\ net[p].err = ""

\* probe p met a transport error: a request error or a body-read error
TransportError(p) == Built(p) /\ (net[p].err # "" \/ net[p].body = "err")

\* the records of the report, as a set of positions
Slots == DOMAIN dockers

\* ------------------------------------------------------------------ C1
\* C1: whenever GetAllDockers has returned, the report holds exactly
\* NumProbes records, whatever the outcomes of the probes were.
C1_ExactlyN == call = "returned" => Len(dockers) = NumProbes

C1_Witness ==
    /\ call = "returned"
    /\ Len(dockers) = NumProbes
    /\ \E p, q, r \in Probes :
         /\ net[p].err = "" /\ net[p].status = StatusOK /\ net[p].body = "ok"
         /\ net[q].err = "" /\ net[q].status # StatusOK
         /\ net[r].err = "refused"

\* ------------------------------------------------------------------ C2
\* C2: GetAllDockers is past its join (sleeping or returned) only when every
\* probe goroutine has run to its end and the wait group is back at zero.
C2_JoinBeforeReturn ==
    call \in {"sleep", "returned"} => (wg = 0 /\ \A p \in Probes : pc[p] = "end")

C2_Witness ==
    /\ call = "returned"
    /\ \A p \in Probes : pc[p] = "end"
    /\ \E p, q \in Probes : net[p].err # "" /\ net[q].err = ""

\* ------------------------------------------------------------------ C3
\* C3: a record is running exactly when its probe got status 200 and met no
\* transport error (neither a request error nor a body-read error).
C3_RunningIff200 ==
    \A p \in Probes :
        Built(p) => (docker[p].Running <=>
                       (net[p].err = "" /\ net[p].body = "ok" /\ net[p].status = StatusOK))

\* ------------------------------------------------------------------ C4
\* C4: a probe that got a response with status c has a record with
\* StatusCode c; a readable 500 is not running, a readable 200 is running.
C4_StatusCopied ==
    \A p \in Probes :
        Responded(p) =>
            /\ docker[p].StatusCode = net[p].status
            /\ (net[p].body = "ok" /\ net[p].status # StatusOK) => ~docker[p].Running
            /\ (net[p].body = "ok" /\ net[p].status = StatusOK) => docker[p].Running

\* ------------------------------------------------------------------ C5
\* C5: when every GET of the batch failed before a response, the call returns
\* normally and every record is not running with the sentinel status -1.
C5_UnreachableSentinel ==
    (call = "returned" /\ \A p \in Probes : net[p].err \in {"refused", "url"}) =>
        /\ proc = "serving"
        /\ \A k \in Slots : dockers[k].Running = FALSE /\ dockers[k].StatusCode = -1

\* ------------------------------------------------------------------ C6
\* C6: a probe whose target answers later than the configured timeout is
\* aborted with a timeout error and its record is not running.
C6_TimeoutAborts ==
    \A p \in Probes :
        (Built(p) /\ net[p].err \in {"", "timeout"} /\ net[p].delay > clientTimeout) =>
            (net[p].err = "timeout" /\ ~docker[p].Running)

\* ------------------------------------------------------------------ C7
\* C7: the record of a probe is a function of that probe's own outcome, and
\* the step in which one probe gets its outcome (an error or a timeout
\* included) leaves every sibling's position, outcome and record alone and
\* leaves the process running.
OwnOutcomeOnly ==
    \A p \in Probes : Built(p) => docker[p] = ToDocker(ver, net[p], clientTimeout)

SiblingsUntouched ==
    \A p \in Probes :
        (call' # "idle" /\ net'[p] # net[p]) =>
            /\ proc' = proc
            /\ \A q \in Probes \ {p} :
                 pc'[q] = pc[q] /\ net'[q] = net[q] /\ docker'[q] = docker[q]

C7_Isolation == []OwnOutcomeOnly /\ [][SiblingsUntouched]_vars

C7_Witness ==
    /\ call = "returned"
    /\ \E p, q \in Probes :
         /\ net[p].err = "timeout" /\ ~docker[p].Running
         /\ net[q].err = "" /\ docker[q].Running

\* ------------------------------------------------------------------ C8
\* C8: v1 changes the slice only in the step of the one goroutine that holds
\* the mutex, at most one goroutine is between Lock and Unlock, and the mutex
\* is free once the call is past its join; v2 changes the slice only in the
\* collecting loop, never in a step of a producer.
InCritical == {p \in Probes : pc[p] \in {"append", "unlock"}}

MutexDiscipline ==
    /\ Cardinality(InCritical) <= 1
    /\ \A p \in InCritical : mutex = p
    /\ call = "returned" => mutex = NoOne

OneWriter ==
    (dockers' # dockers /\ call' # "idle") =>
        IF ver = "v1"
        THEN \E p \in Probes :
               /\ pc[p] = "append" /\ mutex = p /\ pc'[p] = "unlock"
               /\ \A q \in Probes \ {p} : pc[q] # "append"
        ELSE call = "range" /\ pc' = pc

C8_RaceFree == []MutexDiscipline /\ [][OneWriter]_vars

C8_Witness ==
    /\ ver = "v1"
    /\ \E p, q \in Probes : pc[p] = "append" /\ mutex = p /\ pc[q] = "lock"

\* ------------------------------------------------------------------ C9
\* C9: while the launch loop has probes left, the next launch is enabled
\* whatever the earlier probes are doing, and a launched probe's GET can
\* complete whatever its siblings are doing.
C9_LaunchNeverWaits ==
    /\ (proc = "serving" /\ call = "loop" /\ i < NumProbes) => ENABLED Launch
    /\ \A p \in Probes : (proc = "serving" /\ pc[p] = "get") => ENABLED ProbeGet(p)

\* all probes of the batch are in flight at the same time
C9_Witness ==
    /\ call \in {"wait", "range"}
    /\ \A p \in Probes : pc[p] = "get"

\* ----------------------------------------------------------------- C10
\* C10: a probe that met a transport error has a record that is not running
\* and the process keeps serving; the process is never exited from inside
\* the fan-out.
C10_ErrorsAbsorbed ==
    /\ \A p \in Probes : TransportError(p) => (~docker[p].Running /\ proc = "serving")
    /\ proc = "exited" => (call = "idle" /\ \A p \in Probes : net[p] = NoNet)

C10_Witness ==
    /\ call = "returned"
    /\ proc = "serving"
    /\ \E p, q, r \in Probes :
         /\ net[p].err = "refused"
         /\ net[q].err = "timeout"
         /\ net[r].err = "" /\ net[r].body = "err"
    /\ \A k \in Slots : ~dockers[k].Running

\* ----------------------------------------------------------------- C11
\* a status code that an HTTP response can carry
ValidHTTP(c) == c \in 100 .. 599

\* C11: once a probe has built its record, exactly one of these holds: the
\* record carries a valid HTTP status code, or the probe met a transport
\* error (request error or body-read error) and the record carries no HTTP
\* status code.
C11_StatusXorError ==
    \A p \in Probes :
        Built(p) => (ValidHTTP(docker[p].StatusCode) <=> ~TransportError(p))

\* --------------------------------------------------- lifecycle vocabulary
\* a request is in flight
InFlight == call # "idle"

\* the process ended by its own exit call, not killed by a signal
ExitedByCode == proc = "exited" /\ exitCode < 128

\* srv.Shutdown has been entered
ShutdownBegun == LOG_SHUTTING \in logs

\* ----------------------------------------------------------------- C12
\* C12: whenever the listener is open, the target URL is a valid one (an
\* empty or malformed URL was rejected before the server accepted requests).
C12_UrlValidWhenServing == lis = "open" => envUrl = "ok"

\* ----------------------------------------------------------------- C13
\* C13: every step of the server keeps the lifecycle state or moves it along
\* Initializing -> Serving -> ShuttingDown -> Stopped (a failed start may end
\* Initializing with a fatal exit, and a kill by an uncaught signal is not a
\* step of the server); Serving is left only by the shutdown that follows a
\* received signal, and requests are taken only in Serving.
StageStep ==
    \/ Stage' = Stage
    \/ Stage' = "Stopped" /\ exitCode' >= 128
    \/ Stage = "Initializing" /\ Stage' = "Serving"
    \/ Stage = "Initializing" /\ Stage' = "Stopped" /\ exitCode' = ExitFatal
    \/ Stage = "Serving" /\ Stage' = "ShuttingDown" /\ sigpc = "got"
    \/ Stage = "ShuttingDown" /\ Stage' = "Stopped"

TakenOnlyServing == (~InFlight /\ InFlight') => Stage = "Serving"

C13_StateMachine == [][StageStep /\ TakenOnlyServing]_vars

\* ----------------------------------------------------------------- C14
\* C14: when the process has ended by its own exit call after Shutdown began
\* and a request was still in flight, the grace period had expired.
C14_InFlightOutlivesGrace ==
    (ExitedByCode /\ ShutdownBegun /\ InFlight) => grace = "expired"

\* ----------------------------------------------------------------- C15
\* C15: from the entry of Shutdown on the listener is closed and stays
\* closed, the one deadline of the shutdown context is armed, and no request
\* is taken any more.
ClosedAtShutdown ==
    (sigpc \in {"drain", "ok", "err", "logged", "end"} \/ ShutdownBegun) =>
        (lis = "closed" /\ grace # "off")

NoAcceptAfterClose ==
    lis = "closed" => (lis' = "closed" /\ (~InFlight => ~InFlight'))

SignalTaken == proc = "serving" /\ (sigq # <<>> \/ sigpc \in {"got", "drain", "ok", "err", "logged"})

C16_EventuallyStopped == SignalTaken ~> (proc = "exited")

\* the process ended on the expired grace period with a request in flight
C16_Witness ==
    /\ proc = "exited"
    /\ grace = "expired"
    /\ LOG_FORCED \in logs
    /\ InFlight

\* ----------------------------------------------------------------- C17
\* C17: a process that ended by its own exit call after a signal-triggered
\* shutdown has status 0, and one that ended before it listened has a
\* non-zero status.
C17_ExitStatus ==
    /\ (ExitedByCode /\ ShutdownBegun) => exitCode = ExitOK
    /\ (proc = "exited" /\ lis = "none" /\ ~ShutdownBegun) => exitCode # ExitOK

\* ----------------------------------------------------------------- C18
\* C18: a process that ended by its own exit call after Shutdown began has
\* logged the graceful or the forced outcome, and Shutdown was not draining.
C18_OutcomeLoggedBeforeExit ==
    (ExitedByCode /\ ShutdownBegun) =>
        /\ (LOG_GRACEFUL \in logs \/ LOG_FORCED \in logs)
        /\ sigpc # "drain"

\* ----------------------------------------------------------------- C19
\* C19: while Serving with the signal handler registered, no step ends the
\* process by a signal: interrupt and terminate are both caught.
SignalCaught ==
    (Stage = "Serving" /\ Registered /\ proc' = "exited") => exitCode' < 128

C19_BothSignalsHandled == [][SignalCaught]_vars

\* ----------------------------------------------------------------- C20
\* C20: no step taken while the server is Serving ends the process.
ServingSurvives == Stage = "Serving" => proc' # "exited"

C20_NoExitWhileServing == [][ServingSurvives]_vars

\* ----------------------------------------------------------------- C21
\* C21: a response whose JSON encoding failed carries a 5xx status, and the
\* failure was logged.
C21_EncodeFailureIs5xx ==
    w.encodeErr => (w.status \in 500 .. 599 /\ w.logged)

\* ----------------------------------------------------------------- C22
\* C22: no step of the running service writes the package-level variable
\* time.Local, and every invocation starts from locals of its own: an empty
\* slice, an empty open channel, a zero wait group, a free mutex and no probe
\* left over from an earlier invocation.
GlobalsUntouched == timeLocal' = timeLocal

FreshLocals ==
    (~InFlight /\ InFlight') =>
        /\ dockers' = <<>> /\ dockerChan' = <<>> /\ ~chanClosed'
        /\ wg' = 0 /\ i' = 0 /\ mutex' = NoOne
        /\ \A p \in Probes : pc'[p] = "idle" /\ gets'[p] = 0

C22_InvocationsIndependent == [][GlobalsUntouched /\ FreshLocals]_vars

\* ----------------------------------------------------------------- C23
\* TIME_DELAY has been read: by Initialize in v1, by the running invocation
\* in v2
DelayRead == IF ver = "v1" THEN proc # "start" ELSE InFlight

\* C23: once TIME_DELAY has been read, an absent or unparsable value has
\* given the default of 15 seconds, a set value that does not parse has been
\* logged, and the process has ended only for an empty URL or a failed bind,
\* never for the numeric setting.
C23_DelayFallsBack ==
    /\ (DelayRead /\ Atoi(envTimeDelay).err) => timeDelay = defaultTimeDelay
    /\ (DelayRead /\ envTimeDelay # <<>> /\ Atoi(envTimeDelay).err) =>
           LOG_INVALID_DELAY \in logs
    /\ proc = "exited" => (envUrl = "" \/ srvpc = "listen")

\* a request was served to its end under an unparsable TIME_DELAY
C23_Witness ==
    /\ envTimeDelay = <<"x">>
    /\ call = "returned"
    /\ proc = "serving"
    /\ timeDelay = defaultTimeDelay
    /\ LOG_INVALID_DELAY \in logs

\* ----------------------------------------------------------------- C24
\* the per-probe timeout the configuration asks for: TIME_DELAY seconds, the
\* default when it is absent or unparsable
ConfiguredDelay ==
    IF Atoi(envTimeDelay).err THEN defaultTimeDelay ELSE Atoi(envTimeDelay).val

\* C24: while the service runs, the timeout of the client that issues every
\* probe is the configured TIME_DELAY.
C24_TimeoutIsConfigured == proc = "serving" => clientTimeout = ConfiguredDelay

\* ----------------------------------------------------------------- C25
\* C25: no probe issues more than one GET; a probe past its GET has issued
\* exactly one, failed or not; and a finished invocation has issued exactly
\* NumProbes GETs, one per probe.
C25_OneGetPerProbe ==
    /\ \A p \in Probes : gets[p] <= 1
    /\ \A p \in Probes : (Built(p) \/ pc[p] = "read") => gets[p] = 1
    /\ call \in {"sleep", "returned"} => \A p \in Probes : gets[p] = 1

\* an invocation returned with failed probes, each of which issued one GET
C25_Witness ==
    /\ call = "returned"
    /\ \A p \in Probes : gets[p] = 1
    /\ \E p, q \in Probes : net[p].err = "refused" /\ net[q].err = "timeout"

\* ----------------------------------------------------------------- C26
\* the one-to-one assignments of probes to positions of the report
Placements ==
    {f \in [Probes -> 1 .. NumProbes] : \A p, q \in Probes : f[p] = f[q] => p = q}

\* seq is a permutation of the records recs of the probes
IsPermutationOf(seq, recs) ==
    /\ Len(seq) = NumProbes
    /\ \E f \in Placements : \A p \in Probes : seq[f[p]] = recs[p]

\* C26: in both builds and in every interleaving, what the collector hands
\* back is a permutation of the records the probes built: the mutex-guarded
\* slice and the drained channel return the same multiset.
C26_CollectorsEquivalent ==
    call \in {"sleep", "returned"} => IsPermutationOf(dockers, docker)

\* the channel collector returned three distinct records out of launch order
C26_Witness ==
    /\ ver = "v2"
    /\ call = "returned"
    /\ \A p, q \in Probes : p # q => docker[p] # docker[q]
    /\ dockers[1] = docker[2]
    /\ dockers[3] = docker[0]

\* ----------------------------------------------------------------- C27
\* time.Sleep(d) returns at once when d <= 0
SleepSeconds == IF timeDelay > 0 THEN timeDelay ELSE 0

\* C27: once every record is collected, nothing but the return is left: the
\* call does not wait between collecting the last record and returning.
C27_NoSleepAfterCollect == call = "sleep" => SleepSeconds = 0

\* ----------------------------------------------------------------- C28
\* the probes whose send has completed
Sent == {p \in Probes : pc[p] \in {"defer", "end"}}

\* C28: in the channel-based collection a producer at its send finds the
\* channel open with room in the buffer; every record passed to the channel
\* is the one send of a producer; the channel is closed only when every
\* producer has ended, once, and stays closed for the rest of the
\* invocation; no step panics; and a call that entered the range loop leaves
\* it with all NumProbes records.
SendNeverBlocks ==
    \A p \in Probes : pc[p] = "send" => (~chanClosed /\ Len(dockerChan) < ChanCap)

OneSendEach == Len(dockers) + Len(dockerChan) = Cardinality(Sent)

ClosedAfterSends ==
    /\ chanClosed => (Sent = Probes /\ wg = 0)
    /\ chanClosed <=> closer = "end"
    /\ exitCode # ExitPanic

StaysClosed == chanClosed => (chanClosed' \/ call' = "idle")

RangeTerminates == (call = "range") ~> (call = "sleep" /\ Len(dockers) = NumProbes)

C28_ChannelProtocol ==
    /\ [](SendNeverBlocks /\ OneSendEach /\ ClosedAfterSends)
    /\ [][StaysClosed]_vars
    /\ RangeTerminates

\* every producer has sent before the collector received anything: the
\* buffer is full
C28_Witness ==
    /\ Len(dockerChan) = ChanCap
    /\ call \in {"loop", "spawn", "range"}
    /\ dockers = <<>>
    /\ ~chanClosed

\* ----------------------------------------------------------------- C29
\* the records deposited so far, in the order of their deposit
Collected == dockers \o dockerChan

\* the probes that have deposited their record
Deposited == {p \in Probes : pc[p] \in {"unlock", "defer", "end"}}

\* C29: at every moment there is one collected record per probe that has
\* deposited; a deposit puts the record of the depositing probe behind the
\* records deposited before it and nothing else changes their order; and the
\* returned report is a one-to-one image of the probes' records.
RecordPerDeposit ==
    /\ Len(Collected) = Cardinality(Deposited)
    /\ call \in {"sleep", "returned"} => IsPermutationOf(dockers, docker)

DepositsInOrder ==
    (Collected' # Collected /\ call' # "idle") =>
        \E p \in Probes :
            /\ pc[p] \in {"append", "send"}
            /\ pc'[p] # pc[p]
            /\ Collected' = Append(Collected, docker[p])

C29_OneToOneInDepositOrder == []RecordPerDeposit /\ [][DepositsInOrder]_vars

\* the report of the mutex build is out of launch order
C29_Witness ==
    /\ ver = "v1"
    /\ call = "returned"
    /\ \A p, q \in Probes : p # q => docker[p] # docker[q]
    /\ dockers[1] = docker[1]
    /\ dockers[2] = docker[2]
    /\ dockers[3] = docker[0]

\* ----------------------------------------------------------------- C30
\* C30: the client of a running service has a timeout > 0, whatever integer
\* TIME_DELAY holds.
C30_TimeoutPositive == proc = "serving" => clientTimeout > 0

====
